---- MODULE Spec2Model ----
(***************************************************************************)
(* Model of txtai's vectors/recovery.py: a Recovery object snapshots the   *)
(* checkpoint file <checkpoint>/<vectorsid> into <checkpoint>/recovery and *)
(* streams batches from the snapshot until the decoder raises EOFError,    *)
(* at which point it closes the handle and removes the snapshot.           *)
(*                                                                         *)
(* The filesystem is modelled with inodes: a directory entry (path) names  *)
(* an inode, an open handle names an inode too, writing a file in place    *)
(* changes the inode every handle on it sees, and removing a path leaves   *)
(* the inode readable through the handles that are still open on it.       *)
(***************************************************************************)
EXTENDS Naturals, Sequences, FiniteSets, TLC

\* ------------------------------------------------------------------ bounds
MaxLen == 2      \* longest file, in records
MaxCalls == 4    \* calls of __call__ followed per reader

\* ------------------------------------------------------------- the universe
Readers == {"r1", "r2"}
Dirs == {"d1", "d2"}
RecoveryName == "recovery"
Names == {"vec", RecoveryName}
Paths == Dirs \X Names

Batches == {"A", "B"}
BAD == "BAD"                      \* a malformed / truncated record
Records == Batches \cup {BAD}
Contents == UNION {[1..n -> Records] : n \in 0..MaxLen}

NoFile == 0
Inos == 1..(Cardinality(Paths) + Cardinality(Readers))
NoPath == <<>>
NoSpool == [ino |-> NoFile, pos |-> 0, closed |-> FALSE]

VARIABLES
  fs,         \* directory entries: path -> inode, NoFile when absent
  data,       \* inode -> content, a sequence of records
  pc,         \* reader -> position: off, new, copy, open, ready, failed
  checkpoint, \* reader -> constructor argument checkpoint
  vectorsid,  \* reader -> constructor argument vectorsid
  spool,      \* reader -> self.spool
  path,       \* reader -> self.path
  existed,    \* reader -> what os.path.exists answered        (history)
  copied,     \* reader -> the source's content when copyfile copied it (history)
  stale,      \* reader -> copyfile found another snapshot there  (history)
  err,        \* reader -> the exception __init__ raised, "" if none
  out         \* reader -> outcomes of the __call__ calls, in order (history)

vars == <<fs, data, pc, checkpoint, vectorsid, spool, path, existed, copied, stale, err, out>>

\* -------------------------------------------------------------- filesystem
IsSet(sp) == sp.ino # NoFile

Holds(sp, i) == IsSet(sp) /\ ~sp.closed /\ sp.ino = i

Referenced(f, sps, i) ==
  \/ \E p \in Paths : f[p] = i
  \/ \E r \in Readers : Holds(sps[r], i)

\* An inode nothing refers to is gone: its content is forgotten.
Collect(f, sps, dat) ==
  [i \in Inos |-> IF Referenced(f, sps, i) THEN dat[i] ELSE <<>>]

Fresh(f, sps) == CHOOSE i \in Inos : ~Referenced(f, sps, i)

Exists(f, p) == f[p] # NoFile

\* What a path holds now; nothing when it is absent.
ContentAt(p) == IF fs[p] = NoFile THEN <<>> ELSE data[fs[p]]

SourcePath(r) == <<checkpoint[r], vectorsid[r]>>

\* The snapshot kept in one place for every checkpoint directory.
RecoveryPathShared(r) == <<"d1", RecoveryName>>

RecoveryPath(r) == <<checkpoint[r], RecoveryName>>

TypeOK ==
  /\ fs \in [Paths -> Inos \cup {NoFile}]
  /\ data \in [Inos -> Contents]
  /\ pc \in [Readers -> {"off", "new", "copy", "open", "ready", "failed"}]
  /\ checkpoint \in [Readers -> Dirs]
  /\ vectorsid \in [Readers -> Names]
  /\ \A r \in Readers : spool[r].ino \in Inos \cup {NoFile} /\ spool[r].pos \in 0..(MaxLen + 1)
  /\ \A r \in Readers : path[r] = NoPath \/ path[r] \in Paths
  /\ existed \in [Readers -> BOOLEAN]
  /\ stale \in [Readers -> BOOLEAN]
  /\ \A r \in Readers : copied[r] \in Contents /\ Len(out[r]) <= MaxCalls

\* ------------------------------------------------------- library behaviour
\* shutil.copyfile(src, dst): refuses to copy a file onto itself, fails when
\* src is missing, otherwise opens dst for writing (creating it, or truncating
\* the inode already there) and writes src's content into it. fault is what the
\* operating system does to this copy: nothing ("ok"), refuse to open dst
\* ("denied"), or run out of space before the last record ("nospace").
Faults == {"ok", "denied", "nospace"}

\* copyfile without the same-file test: opening dst for writing empties the
\* file that src names too.
CopyFileOntoItself(f, dat, sps, src, dst, fault) ==
  IF ~Exists(f, src)
    THEN [fs |-> f, data |-> dat, err |-> "FileNotFoundError"]
  ELSE IF fault = "denied"
    THEN [fs |-> f, data |-> dat, err |-> "PermissionError"]
  ELSE
    LET c == IF f[src] = f[dst] THEN <<>> ELSE dat[f[src]]
        i == IF Exists(f, dst) THEN f[dst] ELSE Fresh(f, sps)
        short == fault = "nospace" /\ Len(c) > 0
        w == IF short THEN SubSeq(c, 1, Len(c) - 1) ELSE c
    IN [fs |-> [f EXCEPT ![dst] = i],
        data |-> [dat EXCEPT ![i] = w],
        err |-> IF short THEN "OSError" ELSE ""]

\* A hard link (os.link) in place of a copy: dst names the inode of src.
CopyFileAsLink(f, dat, sps, src, dst, fault) ==
  IF ~Exists(f, src)
    THEN [fs |-> f, data |-> dat, err |-> "FileNotFoundError"]
  ELSE IF f[src] = f[dst]
    THEN [fs |-> f, data |-> dat, err |-> "SameFileError"]
  ELSE IF fault # "ok"
    THEN [fs |-> f, data |-> dat, err |-> "PermissionError"]
  ELSE [fs |-> [f EXCEPT ![dst] = f[src]],
        data |-> Collect([f EXCEPT ![dst] = f[src]], sps, dat),
        err |-> ""]

\* dst opened for appending ("ab") in place of writing ("wb").
CopyFileAppending(f, dat, sps, src, dst, fault) ==
  IF ~Exists(f, src)
    THEN [fs |-> f, data |-> dat, err |-> "FileNotFoundError"]
  ELSE IF f[src] = f[dst]
    THEN [fs |-> f, data |-> dat, err |-> "SameFileError"]
  ELSE IF fault = "denied"
    THEN [fs |-> f, data |-> dat, err |-> "PermissionError"]
  ELSE
    LET c == dat[f[src]]
        i == IF Exists(f, dst) THEN f[dst] ELSE Fresh(f, sps)
        old == IF Exists(f, dst) THEN dat[f[dst]] ELSE <<>>
        short == fault = "nospace" /\ Len(c) > 0
        w == IF short THEN SubSeq(c, 1, Len(c) - 1) ELSE c
    IN [fs |-> [f EXCEPT ![dst] = i],
        data |-> [dat EXCEPT ![i] = old \o w],
        err |-> IF short THEN "OSError" ELSE ""]

\* The copy written to a new file that then replaces dst (write and rename):
\* dst names a new inode, a handle open on the old one keeps the old content.
CopyFileReplacing(f, dat, sps, src, dst, fault) ==
  IF ~Exists(f, src)
    THEN [fs |-> f, data |-> dat, err |-> "FileNotFoundError"]
  ELSE IF f[src] = f[dst]
    THEN [fs |-> f, data |-> dat, err |-> "SameFileError"]
  ELSE IF fault # "ok"
    THEN [fs |-> f, data |-> dat, err |-> "PermissionError"]
  ELSE
    LET i == Fresh(f, sps)
        g == [f EXCEPT ![dst] = i]
    IN [fs |-> g,
        data |-> Collect(g, sps, [dat EXCEPT ![i] = dat[f[src]]]),
        err |-> ""]

CopyFile(f, dat, sps, src, dst, fault) ==
  IF ~Exists(f, src)
    THEN [fs |-> f, data |-> dat, err |-> "FileNotFoundError"]
  ELSE IF f[src] = f[dst]
    THEN [fs |-> f, data |-> dat, err |-> "SameFileError"]
  ELSE IF fault = "denied"
    THEN [fs |-> f, data |-> dat, err |-> "PermissionError"]
  ELSE
    LET c == dat[f[src]]
        i == IF Exists(f, dst) THEN f[dst] ELSE Fresh(f, sps)
        short == fault = "nospace" /\ Len(c) > 0
        w == IF short THEN SubSeq(c, 1, Len(c) - 1) ELSE c
    IN [fs |-> [f EXCEPT ![dst] = i],
        data |-> [dat EXCEPT ![i] = w],
        err |-> IF short THEN "OSError" ELSE ""]

\* The handle left past the first record (a header read after opening).
OpenRbPastFirst(f, p) == [ino |-> f[p], pos |-> 1, closed |-> FALSE]

\* open(path, "rb"): a handle on the inode the path names, at offset 0.
OpenRb(f, p) == [ino |-> f[p], pos |-> 0, closed |-> FALSE]

\* os.remove left out.
RemoveNothing(f, p) == f

\* os.remove(path)
Remove(f, p) == [f EXCEPT ![p] = NoFile]

\* The decoder (the load argument) applied to a handle: one batch and the
\* handle advanced past it, EOFError when nothing is left, or another error on
\* a malformed record (how far it read before failing is not specified). Reading
\* a closed handle raises ValueError.
load(dat, sp) ==
  IF sp.closed
    THEN {[kind |-> "error", value |-> "ValueError", pos |-> sp.pos]}
  ELSE IF sp.pos >= Len(dat[sp.ino])
    THEN {[kind |-> "eof", value |-> "EOFError", pos |-> sp.pos]}
  ELSE IF dat[sp.ino][sp.pos + 1] = BAD
    THEN {[kind |-> "error", value |-> "DecodeError", pos |-> q] : q \in {sp.pos, sp.pos + 1}}
  ELSE {[kind |-> "batch", value |-> dat[sp.ino][sp.pos + 1], pos |-> sp.pos + 1]}

\* ------------------------------------------------------ Recovery.__init__
\* The existence test applied to the snapshot path.
SnapshotExists(r) == Exists(fs, RecoveryPath(r))

\* Lines 27-28: is there a checkpoint file of this configuration?
SourceExists(r) == Exists(fs, SourcePath(r))

\* Lines 24-30: clear the fields, test the source, name the snapshot.
Check(r) ==
  /\ pc[r] = "new"
  /\ existed' = [existed EXCEPT ![r] = SourceExists(r)]
  /\ IF SourceExists(r)
       THEN /\ path' = [path EXCEPT ![r] = RecoveryPath(r)]
            /\ pc' = [pc EXCEPT ![r] = "copy"]
       ELSE /\ path' = [path EXCEPT ![r] = NoPath]
            /\ pc' = [pc EXCEPT ![r] = "ready"]
  /\ spool' = [spool EXCEPT ![r] = NoSpool]
  /\ UNCHANGED <<fs, data, checkpoint, vectorsid, copied, stale, err, out>>

\* The exception of copyfile swallowed.
AfterCopySwallowed(e) == "open"

\* An exception of copyfile is not caught: __init__ ends with it.
AfterCopy(e) == IF e = "" THEN "open" ELSE "failed"

\* Line 33: copy the checkpoint to the snapshot.
Copy(r) ==
  /\ pc[r] = "copy"
  /\ \E fault \in Faults :
       LET res == CopyFile(fs, data, spool, SourcePath(r), path[r], fault)
       IN /\ fs' = res.fs
          /\ data' = res.data
          /\ err' = [err EXCEPT ![r] = res.err]
          /\ copied' = [copied EXCEPT ![r] =
                          IF res.err = "" THEN ContentAt(SourcePath(r)) ELSE <<>>]
          /\ stale' = [stale EXCEPT ![r] =
                         /\ res.err = ""
                         /\ fs[path[r]] # NoFile
                         /\ ContentAt(path[r]) # ContentAt(SourcePath(r))]
          /\ pc' = [pc EXCEPT ![r] = AfterCopy(res.err)]
  /\ UNCHANGED <<checkpoint, vectorsid, spool, path, existed, out>>

\* Line 37: open the snapshot.
Open(r) ==
  /\ pc[r] = "open"
  /\ IF Exists(fs, path[r])
       THEN /\ spool' = [spool EXCEPT ![r] = OpenRb(fs, path[r])]
            /\ pc' = [pc EXCEPT ![r] = "ready"]
            /\ err' = err
       ELSE /\ spool' = spool
            /\ pc' = [pc EXCEPT ![r] = "failed"]
            /\ err' = [err EXCEPT ![r] = "FileNotFoundError"]
  /\ UNCHANGED <<fs, data, checkpoint, vectorsid, path, existed, copied, stale, out>>

\* ------------------------------------------------------ Recovery.__call__
\* No except clause: EOFError leaves __call__ like any other error.
CaughtNothing(kind) == FALSE

\* "except Exception" in place of "except EOFError".
CaughtAny(kind) == kind \in {"eof", "error"}

\* Line 49: the one exception __call__ handles.
Caught(kind) == kind = "eof"

\* The cleanup without line 55: the fields keep the closed handle and the path.
CleanupNoClear(f, sp, p) ==
  IF Exists(f, p)
    THEN [fs |-> Remove(f, p), spool |-> [sp EXCEPT !.closed = TRUE], path |-> p,
          ret |-> "None"]
    ELSE [fs |-> f, spool |-> [sp EXCEPT !.closed = TRUE], path |-> p,
          ret |-> "FileNotFoundError"]

\* The cleanup without line 52: the snapshot stays on disk.
CleanupKeepsFile(f, sp, p) ==
  IF Exists(f, p)
    THEN [fs |-> f, spool |-> NoSpool, path |-> NoPath, ret |-> "None"]
    ELSE [fs |-> f, spool |-> [sp EXCEPT !.closed = TRUE], path |-> p,
          ret |-> "FileNotFoundError"]

\* The cleanup clearing self.spool alone.
CleanupKeepsPath(f, sp, p) ==
  IF Exists(f, p)
    THEN [fs |-> Remove(f, p), spool |-> NoSpool, path |-> p, ret |-> "None"]
    ELSE [fs |-> f, spool |-> [sp EXCEPT !.closed = TRUE], path |-> p,
          ret |-> "FileNotFoundError"]

\* Lines 51-57: close the handle, remove the snapshot, clear both fields,
\* return None. os.remove raises when the path is gone, and then the fields
\* keep the closed handle and the path.
Cleanup(f, sp, p) ==
  IF Exists(f, p)
    THEN [fs |-> Remove(f, p), spool |-> NoSpool, path |-> NoPath, ret |-> "None"]
    ELSE [fs |-> f, spool |-> [sp EXCEPT !.closed = TRUE], path |-> p,
          ret |-> "FileNotFoundError"]

Call(r) ==
  /\ pc[r] = "ready"
  /\ Len(out[r]) < MaxCalls
  /\ IF ~IsSet(spool[r])
       THEN /\ out' = [out EXCEPT ![r] = Append(@, "None")]
            /\ UNCHANGED <<fs, data, spool, path>>
       ELSE \E res \in load(data, spool[r]) :
              IF res.kind = "batch"
                THEN /\ out' = [out EXCEPT ![r] = Append(@, res.value)]
                     /\ spool' = [spool EXCEPT ![r].pos = res.pos]
                     /\ UNCHANGED <<fs, data, path>>
              ELSE IF Caught(res.kind)
                THEN LET c == Cleanup(fs, spool[r], path[r])
                     IN /\ fs' = c.fs
                        /\ spool' = [spool EXCEPT ![r] = c.spool]
                        /\ path' = [path EXCEPT ![r] = c.path]
                        /\ out' = [out EXCEPT ![r] = Append(@, c.ret)]
                        /\ data' = Collect(fs', spool', data)
              ELSE /\ out' = [out EXCEPT ![r] = Append(@, res.value)]
                   /\ spool' = [spool EXCEPT ![r].pos = res.pos]
                   /\ UNCHANGED <<fs, data, path>>
  /\ UNCHANGED <<pc, checkpoint, vectorsid, existed, copied, stale, err>>

\* ------------------------------------------------- the upstream writer
\* The build that owns a checkpoint file <checkpoint>/<vectorsid> keeps
\* writing it while a reader exists: it appends a record, starts the file
\* over (creating it when it is absent), or deletes it.
Sources == {SourcePath(r) : r \in {q \in Readers : pc[q] # "off"}}

AppendRecord(p, x) ==
  /\ p \in Sources
  /\ Exists(fs, p)
  /\ Len(data[fs[p]]) < MaxLen
  /\ data' = [data EXCEPT ![fs[p]] = Append(@, x)]
  /\ UNCHANGED <<fs, pc, checkpoint, vectorsid, spool, path, existed, copied, stale, err, out>>

Rewrite(p) ==
  /\ p \in Sources
  /\ IF Exists(fs, p)
       THEN /\ data[fs[p]] # <<>>
            /\ fs' = fs
       ELSE fs' = [fs EXCEPT ![p] = Fresh(fs, spool)]
  /\ data' = [data EXCEPT ![fs'[p]] = <<>>]
  /\ UNCHANGED <<pc, checkpoint, vectorsid, spool, path, existed, copied, stale, err, out>>

Delete(p) ==
  /\ p \in Sources
  /\ Exists(fs, p)
  /\ fs' = [fs EXCEPT ![p] = NoFile]
  /\ data' = Collect(fs', spool, data)
  /\ UNCHANGED <<pc, checkpoint, vectorsid, spool, path, existed, copied, stale, err, out>>

\* ------------------------------------------------------- specifications
PathIno == CHOOSE f \in [Paths -> 1..Cardinality(Paths)] :
             \A p, q \in Paths : p # q => f[p] # f[q]

\* The readers in live are about to be constructed. The directories they use
\* hold any files; a file of another directory, if there, holds one batch.
InitWith(live) ==
  /\ pc = [r \in Readers |-> IF r \in live THEN "new" ELSE "off"]
  /\ checkpoint \in [Readers -> Dirs]
  /\ vectorsid \in [Readers -> Names]
  /\ \A r \in Readers \ live : checkpoint[r] = "d1" /\ vectorsid[r] = "vec"
  /\ \E present \in SUBSET Paths :
       LET used == {p \in present : \E r \in live : checkpoint[r] = p[1]}
       IN \E content \in [used -> Contents] :
            /\ fs = [p \in Paths |-> IF p \in present THEN PathIno[p] ELSE NoFile]
            /\ data = [i \in Inos |->
                         IF \E p \in used : PathIno[p] = i
                           THEN content[CHOOSE p \in used : PathIno[p] = i]
                         ELSE IF \E p \in present : PathIno[p] = i
                           THEN <<"A">>
                         ELSE <<>>]
  /\ spool = [r \in Readers |-> NoSpool]
  /\ path = [r \in Readers |-> NoPath]
  /\ existed = [r \in Readers |-> FALSE]
  /\ copied = [r \in Readers |-> <<>>]
  /\ stale = [r \in Readers |-> FALSE]
  /\ err = [r \in Readers |-> ""]
  /\ out = [r \in Readers |-> <<>>]

\* One reader per checkpoint directory: the documented way to use Recovery.
Init == InitWith({"r1"})

Next ==
  \/ \E r \in Readers : Check(r)
  \/ \E r \in Readers : Copy(r)
  \/ \E r \in Readers : Open(r)
  \/ \E r \in Readers : Call(r)
  \/ \E p \in Paths : \E x \in Records : AppendRecord(p, x)
  \/ \E p \in Paths : Rewrite(p)
  \/ \E p \in Paths : Delete(p)

Spec == Init /\ [][Next]_vars

\* ============================================================ properties
\* The two states of the reader, read off the fields of the object.
Active(r) == spool[r].ino # NoFile /\ ~spool[r].closed /\ path[r] # NoPath

Disabled(r) == spool[r].ino = NoFile /\ path[r] = NoPath

Present(p) == fs[p] # NoFile

Complete(c) == \A i \in 1..Len(c) : c[i] \in Batches

Last(s) == s[Len(s)]

\* A step of reader r: its constructor moves on, or one more call is made.
Stepped(r) == pc'[r] # pc[r] \/ out'[r] # out[r]

\* C1: a reader constructed over a source of N complete batches returns those
\* N batches in file order, then "no data" on call N+1, and from then on the
\* snapshot <checkpoint>/recovery is not on disk.
C1_BatchesThenNoData ==
  \A r \in Readers :
    (pc[r] = "ready" /\ existed[r] /\ Complete(copied[r])) =>
      /\ \A i \in 1..Len(out[r]) :
           out[r][i] = IF i <= Len(copied[r]) THEN copied[r][i] ELSE "None"
      /\ Len(out[r]) > Len(copied[r]) => ~Present(RecoveryPath(r))

C1_Witness ==
  \E r \in Readers :
    /\ pc[r] = "ready" /\ existed[r]
    /\ copied[r] = <<"B", "A">>
    /\ out[r] = <<"B", "A", "None">>
    /\ ~Present(RecoveryPath(r))

\* C2: when the source <checkpoint>/<vectorsid> is absent, construction ends
\* with the reader Disabled and touches no file (a recovery file already there
\* stays as it is), and every call afterwards returns "no data" and touches
\* no file either.
C2_AbsentSource ==
  /\ [][\A r \in Readers :
          (pc[r] = "new" /\ ~Present(SourcePath(r)) /\ Stepped(r)) =>
            (pc'[r] = "ready" /\ Disabled(r)' /\ fs' = fs /\ data' = data)]_vars
  /\ [][\A r \in Readers :
          (pc[r] = "ready" /\ ~existed[r] /\ Stepped(r)) =>
            (Disabled(r)' /\ fs' = fs /\ data' = data /\ Last(out'[r]) = "None")]_vars

C2_Witness ==
  \E r \in Readers :
    /\ pc[r] = "ready" /\ ~existed[r]
    /\ Len(out[r]) >= 2
    /\ Present(RecoveryPath(r))
    /\ Present(SourcePath(r))

\* C3: once a call has found the reader Disabled or has returned "no data",
\* every further call returns "no data" (it does not raise) and changes
\* neither the reader's fields nor the filesystem.
C3_IdempotentOnceDisabled ==
  [][\A r \in Readers :
       (/\ pc[r] = "ready"
        /\ out'[r] # out[r]
        /\ \/ Disabled(r)
           \/ (out[r] # <<>> /\ Last(out[r]) = "None")) =>
         /\ out'[r] = Append(out[r], "None")
         /\ spool'[r] = spool[r] /\ path'[r] = path[r]
         /\ Disabled(r)
         /\ fs' = fs /\ data' = data]_vars

C3_Witness ==
  \E r \in Readers :
    /\ pc[r] = "ready" /\ existed[r]
    /\ out[r] = <<"A", "None", "None", "None">>
    /\ Disabled(r)

\* C4: no step of a reader changes the entry or the content of its source
\* <checkpoint>/<vectorsid>, also when vectorsid is "recovery"; the only path
\* whose entry or content a step of a reader changes is <checkpoint>/recovery.
C4_SourceUntouched ==
  [][\A r \in Readers :
       Stepped(r) =>
         /\ fs'[SourcePath(r)] = fs[SourcePath(r)]
         /\ Present(SourcePath(r)) => data'[fs[SourcePath(r)]] = data[fs[SourcePath(r)]]
         /\ \A p \in Paths :
              p # RecoveryPath(r) =>
                /\ fs'[p] = fs[p]
                /\ Present(p) => data'[fs[p]] = data[fs[p]]]_vars

C4_Witness ==
  \E r \in Readers :
    /\ vectorsid[r] = RecoveryName
    /\ pc[r] = "failed" /\ err[r] = "SameFileError"
    /\ Present(SourcePath(r))
    /\ Len(ContentAt(SourcePath(r))) = MaxLen

\* C5: while the reader is Active the snapshot is the file its handle reads
\* and holds what the source held when it was copied, whatever the writer has
\* done to the source since (no step but the copy changes it); every batch a
\* call returns is the batch of that copy at the handle's position.
C5_SnapshotIsolation ==
  /\ [](\A r \in Readers :
          (pc[r] = "ready" /\ Active(r)) =>
            /\ fs[RecoveryPath(r)] = spool[r].ino
            /\ data[spool[r].ino] = copied[r])
  /\ [][\A r \in Readers :
          (pc[r] = "ready" /\ out'[r] # out[r] /\ Last(out'[r]) \in Batches) =>
            /\ spool[r].pos < Len(copied[r])
            /\ Last(out'[r]) = copied[r][spool[r].pos + 1]]_vars

C5_Witness ==
  \E r \in Readers :
    /\ pc[r] = "ready" /\ Active(r)
    /\ copied[r] = <<"A", "B">>
    /\ out[r] = <<"A", "B">>
    /\ Present(SourcePath(r))
    /\ ContentAt(SourcePath(r)) = <<"B">>

\* C6: right after a construction over an existing source has succeeded the
\* reader is Active, <checkpoint>/recovery holds exactly what the source held
\* when it was copied (nothing of a stale recovery file), and the handle is
\* open on that file at offset 0.
C6_FreshSnapshot ==
  \A r \in Readers :
    (pc[r] = "ready" /\ existed[r] /\ out[r] = <<>>) =>
      /\ Active(r)
      /\ path[r] = RecoveryPath(r)
      /\ Present(RecoveryPath(r))
      /\ ContentAt(RecoveryPath(r)) = copied[r]
      /\ spool[r] = [ino |-> fs[RecoveryPath(r)], pos |-> 0, closed |-> FALSE]

C6_Witness ==
  \E r \in Readers :
    /\ pc[r] = "ready" /\ existed[r] /\ out[r] = <<>>
    /\ stale[r]
    /\ copied[r] = <<"A">>

IOErrors == {"FileNotFoundError", "SameFileError", "PermissionError", "OSError"}

\* C7: a constructed reader starts Active exactly when the source existed and
\* Disabled otherwise; it leaves Active only for Disabled, only in a call that
\* found the handle at the end of the snapshot (the decoder's end-of-stream)
\* and returned "no data"; once Disabled it stays Disabled.
C7_Lifecycle ==
  /\ [](\A r \in Readers :
          (pc[r] = "ready" /\ out[r] = <<>>) =>
            /\ Active(r) <=> existed[r]
            /\ Active(r) \/ Disabled(r))
  /\ [][\A r \in Readers :
          pc[r] = "ready" =>
            /\ (Active(r) /\ ~Active(r)') =>
                 /\ Disabled(r)'
                 /\ out'[r] = Append(out[r], "None")
                 /\ spool[r].pos >= Len(data[spool[r].ino])
            /\ Disabled(r) => Disabled(r)'
            /\ pc'[r] = "ready"]_vars

C7_Witness ==
  \E r \in Readers :
    /\ pc[r] = "ready" /\ existed[r]
    /\ copied[r] = <<"BAD", "B">>
    /\ out[r] = <<"DecodeError", "B", "None">>
    /\ Disabled(r)

\* C8: a call in which the decoder meets a malformed record raises the
\* decoder's error (it does not return "no data"), removes nothing, and leaves
\* the reader Active on the same open handle with the snapshot on disk.
C8_DecoderErrorPropagates ==
  [][\A r \in Readers :
       (/\ pc[r] = "ready" /\ Active(r)
        /\ out'[r] # out[r]
        /\ spool[r].pos < Len(data[spool[r].ino])
        /\ data[spool[r].ino][spool[r].pos + 1] = BAD) =>
         /\ out'[r] = Append(out[r], "DecodeError")
         /\ fs' = fs /\ data' = data
         /\ Active(r)'
         /\ spool'[r].ino = spool[r].ino
         /\ path'[r] = path[r]
         /\ Present(path[r])]_vars

C8_Witness ==
  \E r \in Readers :
    /\ pc[r] = "ready" /\ Active(r)
    /\ out[r] = <<"A", "DecodeError">>
    /\ Present(RecoveryPath(r))
    /\ fs[RecoveryPath(r)] = spool[r].ino

\* C9: when the source was there at the existence test and copyfile fails
\* (the source deleted in between, no permission, no space, the same file),
\* __init__ ends with that I/O error: the constructor does not go on, no
\* handle is opened, and no call is ever made on the object.
C9_CopyFailurePropagates ==
  /\ [](\A r \in Readers :
          err[r] # "" =>
            /\ err[r] \in IOErrors
            /\ existed[r]
            /\ pc[r] = "failed"
            /\ spool[r].ino = NoFile /\ ~Active(r)
            /\ out[r] = <<>>)
  /\ [][\A r \in Readers :
          (pc[r] = "copy" /\ Stepped(r)) =>
            \/ /\ pc'[r] = "open"
               /\ Present(SourcePath(r)) /\ Present(RecoveryPath(r))'
               /\ fs'[RecoveryPath(r)] # fs[SourcePath(r)]
               /\ ContentAt(RecoveryPath(r))' = ContentAt(SourcePath(r))
            \/ /\ pc'[r] = "failed"
               /\ err'[r] \in IOErrors]_vars

C9_Witness ==
  \E r \in Readers :
    /\ existed[r]
    /\ pc[r] = "failed" /\ err[r] = "FileNotFoundError"
    /\ ~Present(SourcePath(r))
    /\ path[r] = RecoveryPath(r)

\* C10: after construction and after every call, returned or raised, the
\* reader is Active (handle set and open, path set) or Disabled (both
\* cleared): the two fields are never set or cleared one without the other.
C10_TwoStatesOnly ==
  \A r \in Readers :
    pc[r] \in {"ready", "failed"} => (Active(r) \/ Disabled(r))

\* What does hold: an object whose construction returned is Active or
\* Disabled as long as it is the only reader of its directory.
C10_ReturnedReaderTwoStates ==
  \A r \in Readers : pc[r] = "ready" => (Active(r) \/ Disabled(r))

\* ============================================================ two readers
\* Two readers are about to be constructed, r1 over d1 and r2 over d2, with
\* identifiers among ids. The checkpoint files hold anything; a recovery file
\* left behind, if there, holds one of snaps.
InitTwo(d2, ids, snaps) ==
  /\ pc = [r \in Readers |-> "new"]
  /\ checkpoint = [r \in Readers |-> IF r = "r1" THEN "d1" ELSE d2]
  /\ vectorsid \in [Readers -> ids]
  /\ \E present \in SUBSET {p \in Paths : p[1] \in {"d1", d2}} :
       LET srcs == {p \in present : p[2] # RecoveryName}
           recs == present \ srcs
       IN \E cs \in [srcs -> Contents] : \E cr \in [recs -> snaps] :
            /\ fs = [p \in Paths |-> IF p \in present THEN PathIno[p] ELSE NoFile]
            /\ data = [i \in Inos |->
                         IF \E p \in srcs : PathIno[p] = i
                           THEN cs[CHOOSE p \in srcs : PathIno[p] = i]
                         ELSE IF \E p \in recs : PathIno[p] = i
                           THEN cr[CHOOSE p \in recs : PathIno[p] = i]
                         ELSE <<>>]
  /\ spool = [r \in Readers |-> NoSpool]
  /\ path = [r \in Readers |-> NoPath]
  /\ existed = [r \in Readers |-> FALSE]
  /\ copied = [r \in Readers |-> <<>>]
  /\ stale = [r \in Readers |-> FALSE]
  /\ err = [r \in Readers |-> ""]
  /\ out = [r \in Readers |-> <<>>]

\* The readers and a writer that appends to the checkpoint files.
NextTwo ==
  \/ \E r \in Readers : Check(r)
  \/ \E r \in Readers : Copy(r)
  \/ \E r \in Readers : Open(r)
  \/ \E r \in Readers : Call(r)
  \/ \E p \in Paths : \E x \in Records : AppendRecord(p, x)

\* Two readers over one checkpoint directory.
SpecSameDir == InitTwo("d1", Names, Contents) /\ [][NextTwo]_vars

\* The readers alone: recovery runs before the build writes again.
NextReaders ==
  \/ \E r \in Readers : Check(r)
  \/ \E r \in Readers : Copy(r)
  \/ \E r \in Readers : Open(r)
  \/ \E r \in Readers : Call(r)

\* Two readers over two checkpoint directories.
SpecTwoDirs == InitTwo("d2", {"vec"}, {<<"B">>}) /\ [][NextReaders]_vars

\* The handle of reader r is at the end of the file it reads.
AtEnd(r) == spool[r].pos >= Len(data[spool[r].ino])

\* C11: two readers over one directory use the one path <checkpoint>/recovery.
\* A copy by one of them rewrites in place the file the other is reading, so
\* the other reads the new content; and a reader that reaches the end after
\* the other one has removed the snapshot closes its handle and then fails to
\* remove the path that is already gone.
C11_SharedSnapshotRace ==
  /\ [](\A r, q \in Readers :
          (path[r] # NoPath /\ path[q] # NoPath) => path[r] = path[q])
  /\ [][\A r, q \in Readers :
          (/\ r # q
           /\ pc[r] = "copy" /\ pc'[r] = "open"
           /\ pc[q] = "ready" /\ Active(q)
           /\ spool[q].ino = fs[path[r]]) =>
            /\ Active(q)' /\ spool'[q] = spool[q]
            /\ fs'[path[r]] = spool[q].ino
            /\ data'[spool[q].ino] = ContentAt(SourcePath(r))]_vars
  /\ [][\A r \in Readers :
          (/\ pc[r] = "ready" /\ Active(r) /\ out'[r] # out[r]
           /\ AtEnd(r)
           /\ ~Present(path[r])) =>
            /\ out'[r] = Append(out[r], "FileNotFoundError")
            /\ spool'[r] = [spool[r] EXCEPT !.closed = TRUE]
            /\ path'[r] = path[r]]_vars

C11_Witness ==
  /\ checkpoint["r1"] = checkpoint["r2"]
  /\ copied["r1"] = <<"A">> /\ copied["r2"] = <<"A", "B">>
  /\ out["r1"] = <<"A", "B", "FileNotFoundError">>
  /\ out["r2"] = <<"A", "B", "None">>
  /\ spool["r1"].closed /\ path["r1"] # NoPath
  /\ Disabled("r2")

\* The snapshot path of reader r, spelled out.
OwnSnapshot(r) == <<checkpoint[r], "recovery">>

\* C12: readers over different checkpoint directories do not interfere. While
\* a reader is Active its handle reads the snapshot of its own directory,
\* which holds what that reader copied; each call returns what the reader's
\* own copy and position give (a batch of the copy, "no data" at its end, the
\* decoder's error), never a failure caused by the other reader; a step of a
\* reader changes no file outside its directory and nothing of the other
\* reader, and the only path it removes is its own snapshot.
C12_DirectoriesIndependent ==
  /\ [](\A r \in Readers :
          /\ (pc[r] = "ready" /\ Active(r)) =>
               /\ path[r] = OwnSnapshot(r)
               /\ fs[OwnSnapshot(r)] = spool[r].ino
               /\ data[spool[r].ino] = copied[r]
          /\ (pc[r] = "ready" /\ existed[r] /\ Complete(copied[r])) =>
               \A i \in 1..Len(out[r]) :
                 out[r][i] = IF i <= Len(copied[r]) THEN copied[r][i] ELSE "None"
          /\ \A i \in 1..Len(out[r]) : out[r][i] \in Batches \cup {"None", "DecodeError"}
          /\ err[r] \in {"", "PermissionError", "OSError"})
  /\ [][\A r \in Readers :
          Stepped(r) =>
            /\ \A q \in Readers \ {r} :
                 spool'[q] = spool[q] /\ path'[q] = path[q] /\ out'[q] = out[q] /\ pc'[q] = pc[q]
            /\ \A p \in Paths :
                 p[1] # checkpoint[r] =>
                   /\ fs'[p] = fs[p]
                   /\ Present(p) => data'[fs[p]] = data[fs[p]]
            /\ \A p \in Paths :
                 (Present(p) /\ ~Present(p)') => p = OwnSnapshot(r)
            /\ (out'[r] # out[r] /\ Last(out'[r]) \in Batches) =>
                 (spool[r].pos < Len(copied[r]) /\ Last(out'[r]) = copied[r][spool[r].pos + 1])]_vars

C12_Witness ==
  /\ checkpoint["r1"] # checkpoint["r2"]
  /\ pc["r1"] = "ready" /\ Active("r1")
  /\ copied["r1"] = <<"A", "B">> /\ out["r1"] = <<"A">>
  /\ Present(OwnSnapshot("r1"))
  /\ pc["r2"] = "ready" /\ Disabled("r2")
  /\ copied["r2"] = <<"B", "A">> /\ out["r2"] = <<"B", "A", "None">>
  /\ ~Present(OwnSnapshot("r2"))

\* C13: with one reader, whenever the reader is Active its snapshot is on
\* disk and its handle is open on it; only a call of the reader that finds
\* the handle at the end of the snapshot ends that, and it ends both at once
\* (reader Disabled, snapshot removed). Every other step (a call returning a
\* batch or raising, anything the writer does) leaves the reader Active on
\* the same file: a caller that stops calling leaves file and handle behind.
C13_DestroyedTogether ==
  /\ [](\A r \in Readers :
          (pc[r] = "ready" /\ Active(r)) =>
            /\ Present(OwnSnapshot(r))
            /\ fs[OwnSnapshot(r)] = spool[r].ino
            /\ ~spool[r].closed)
  /\ [][\A r \in Readers :
          (pc[r] = "ready" /\ Active(r)) =>
            IF out'[r] # out[r] /\ AtEnd(r)
              THEN Disabled(r)' /\ ~Present(OwnSnapshot(r))'
              ELSE /\ Active(r)' /\ spool'[r].ino = spool[r].ino
                   /\ fs'[OwnSnapshot(r)] = fs[OwnSnapshot(r)]
                   /\ data'[spool[r].ino] = data[spool[r].ino]]_vars

C13_Witness ==
  \E r \in Readers :
    /\ pc[r] = "ready" /\ Active(r)
    /\ copied[r] = <<"A", "B">> /\ out[r] = <<"A">>
    /\ vectorsid[r] # "recovery" /\ ~Present(SourcePath(r))
    /\ Present(OwnSnapshot(r))

\* One reader in d1 and nothing in the other directory; the constructor runs
\* to its end and the consumer keeps calling.
InitLive ==
  /\ Init
  /\ checkpoint["r1"] = "d1"
  /\ \A p \in Paths : p[1] # "d1" => fs[p] = NoFile

Construct(r) == Check(r) \/ Copy(r) \/ Open(r)

SpecLive ==
  /\ InitLive
  /\ [][Next]_vars
  /\ \A r \in Readers : WF_vars(Construct(r)) /\ WF_vars(Call(r))

\* C14: a reader constructed over a snapshot of complete batches, called
\* again and again, eventually gets "no data", on the call after its last
\* batch; the reader is then Disabled and the snapshot removed.
C14_RecoveryTerminates ==
  \A r \in Readers :
    (pc[r] = "ready" /\ existed[r] /\ Complete(copied[r])) ~>
      (/\ Len(out[r]) > Len(copied[r])
       /\ out[r][Len(copied[r]) + 1] = "None"
       /\ Disabled(r)
       /\ ~Present(OwnSnapshot(r)))

C14_Witness ==
  \E r \in Readers :
    /\ pc[r] = "ready" /\ existed[r]
    /\ copied[r] = <<"A", "A">>
    /\ out[r] = <<"A", "A", "None">>
    /\ Disabled(r)
    /\ ~Present(OwnSnapshot(r))

\* C15: the handle starts at offset 0; a call in which the decoder succeeds
\* returns the record at the handle's position, moves the position past that
\* one record and changes nothing else (reader Active, snapshot as it was);
\* the position never goes back, so over a snapshot of complete batches the
\* batches returned so far are exactly the first records up to the position.
C15_PositionAdvances ==
  /\ [](\A r \in Readers :
          /\ (pc[r] = "ready" /\ existed[r] /\ out[r] = <<>>) => spool[r].pos = 0
          /\ (pc[r] = "ready" /\ Active(r) /\ Complete(copied[r])) =>
               out[r] = SubSeq(copied[r], 1, spool[r].pos))
  /\ [][\A r \in Readers :
          /\ (/\ pc[r] = "ready" /\ Active(r) /\ out'[r] # out[r]
              /\ ~AtEnd(r)
              /\ data[spool[r].ino][spool[r].pos + 1] \in Batches) =>
               /\ out'[r] = Append(out[r], data[spool[r].ino][spool[r].pos + 1])
               /\ spool'[r] = [spool[r] EXCEPT !.pos = spool[r].pos + 1]
               /\ path'[r] = path[r] /\ Active(r)'
               /\ fs' = fs /\ data' = data
          /\ (pc[r] = "ready" /\ spool[r].ino # NoFile /\ spool'[r].ino # NoFile) =>
               /\ spool'[r].ino = spool[r].ino
               /\ spool'[r].pos >= spool[r].pos
               /\ spool'[r].pos <= spool[r].pos + 1]_vars

C15_Witness ==
  \E r \in Readers :
    /\ pc[r] = "ready" /\ Active(r)
    /\ copied[r] = <<"B", "B">>
    /\ out[r] = <<"B", "B">>
    /\ spool[r].pos = 2
====
